---- MODULE Spec2Model ----
(***************************************************************************)
(* The order matching and reservation engine of app/routers/orders.py:     *)
(* create_order (admission checks, reservation, execute_matching with      *)
(* execute_deal per trade leg, rollback through                            *)
(* cancel_order_and_return_funds) and cancel_order, over the orders and    *)
(* balances tables.  Every db.commit() of the code ends one step of the    *)
(* model, so every committed state of the database is a state here.        *)
(* Requests are handled one at a time (a sequential run).                  *)
(***************************************************************************)
EXTENDS Integers, Sequences, FiniteSets, TLC

\* ------------------------------------------------------------------ bounds
Users == {"u1", "u2", "u3"}
RUB == "RUB"
Assets == {"AAA"}
Tickers == Assets \cup {RUB}
MaxOrders == 3
MaxQty == 2
MaxPrice == 2
InitRub == 4
InitAsset == 2

\* price of a MARKET order (None in the code, NULL in the table)
NoPrice == 0
\* no order id
NoOrder == 0

OpenStatuses == {"NEW", "PARTIALLY_EXECUTED"}

VARIABLES
    orders,          \* the orders table: a sequence, the index is id and created_at
    balances,        \* the balances table: <<user, ticker>> -> amount, one entry per row
    instruments,     \* the tickers of the instruments table
    pc,              \* where the request being handled stands
    req,             \* the request being handled
    cur,             \* new_order.id of the create_order being handled
    counter_orders,  \* execute_matching: the counter-orders still to walk
    trades,          \* the trade legs execute_deal made in the current matching pass
    pre,             \* orders and balances when the request being handled arrived
    resting,         \* the order the last request left resting unfilled, and the
                     \* balances before that request
    sessions,        \* requests handled at the same time: what the Session of
                     \* each worker thread holds
    refunds          \* requests handled at the same time: what each cancel_order
                     \* has given back, as [order, quantity]

vars ==
    <<orders, balances, instruments, pc, req, cur, counter_orders, trades, pre, resting,
      sessions, refunds>>

\* ------------------------------------------------------------------ requests
NoReq ==
    [op |-> "none", user |-> "u1", ticker |-> RUB, side |-> "BUY", type |-> "LIMIT",
     quantity |-> 0, price |-> NoPrice, id |-> NoOrder]

LimitRequests ==
    [op : {"create"}, user : Users, ticker : Assets, side : {"BUY", "SELL"},
     type : {"LIMIT"}, quantity : 1..MaxQty, price : 1..MaxPrice, id : {NoOrder}]

MarketRequests ==
    [op : {"create"}, user : Users, ticker : Assets, side : {"BUY", "SELL"},
     type : {"MARKET"}, quantity : 1..MaxQty, price : {NoPrice}, id : {NoOrder}]

CancelRequests ==
    [op : {"cancel"}, user : Users, ticker : {RUB}, side : {"BUY"}, type : {"LIMIT"},
     quantity : {0}, price : {NoPrice}, id : 1..(MaxOrders + 1)]

\* a call execute_matching(db, order_id) for an order that exists
MatchCalls ==
    [op : {"match"}, user : {"u1"}, ticker : {RUB}, side : {"BUY"}, type : {"LIMIT"},
     quantity : {0}, price : {NoPrice}, id : 1..MaxOrders]

\* ------------------------------------------------------------------ helpers
Remaining(o) == o.quantity - o.filled_quantity

HasRow(bal, u, t) == <<u, t>> \in DOMAIN bal

\* amount += d on the row, the row created with amount d when it is missing
Credit(bal, u, t, d) ==
    IF HasRow(bal, u, t)
    THEN [bal EXCEPT ![<<u, t>>] = @ + d]
    ELSE bal @@ (<<u, t>> :> d)

\* amount += d on the row, nothing when the row is missing
CreditIfRow(bal, u, t, d) ==
    IF HasRow(bal, u, t) THEN [bal EXCEPT ![<<u, t>>] = @ + d] ELSE bal

\* what get_reserved_balance adds for one open order
ReservedBy(o) ==
    IF o.side = "SELL" THEN Remaining(o)
    ELSE IF o.type = "LIMIT" THEN Remaining(o) * o.price
    ELSE 0

RECURSIVE ReservedUpTo(_, _, _, _)
ReservedUpTo(ords, u, t, n) ==
    IF n = 0 THEN 0
    ELSE ReservedUpTo(ords, u, t, n - 1)
         + (IF /\ ords[n].user = u
               /\ ords[n].ticker = t
               /\ ords[n].status \in OpenStatuses
            THEN ReservedBy(ords[n]) ELSE 0)

get_reserved_balance(ords, u, t) == ReservedUpTo(ords, u, t, Len(ords))

OppositeSide(side) == IF side = "BUY" THEN "SELL" ELSE "BUY"

\* ORDER BY price on PostgreSQL: NULL sorts as larger than every price
\* (last under asc, first under desc)
PriceKey(o) == IF o.price = NoPrice THEN MaxPrice + 1 ELSE o.price

\* order a comes before order b when the counter-orders of an aggressor of
\* `side` are walked: asc(price) for a BUY, desc(price) for a SELL, then
\* asc(created_at)
Precedes(ords, side, a, b) ==
    \/ IF side = "BUY" THEN PriceKey(ords[a]) < PriceKey(ords[b])
                       ELSE PriceKey(ords[a]) > PriceKey(ords[b])
    \/ PriceKey(ords[a]) = PriceKey(ords[b]) /\ a < b

RECURSIVE SortIds(_, _, _)
SortIds(ords, side, S) ==
    IF S = {} THEN <<>>
    ELSE LET m == CHOOSE x \in S : \A y \in S \ {x} : Precedes(ords, side, x, y)
         IN <<m>> \o SortIds(ords, side, S \ {m})

Min(a, b) == IF a <= b THEN a ELSE b

RECURSIVE SumRemaining(_, _)
SumRemaining(ords, S) ==
    IF S = {} THEN 0
    ELSE LET i == CHOOSE x \in S : TRUE
         IN Remaining(ords[i]) + SumRemaining(ords, S \ {i})

\* ------------------------------------------------------------------ get_orderbook
\* the rows of base_query on one side
OrderbookOrders(ords, ticker, side) ==
    {i \in 1..Len(ords) :
        /\ ords[i].ticker = ticker
        /\ ords[i].type = "LIMIT"
        /\ ords[i].status = "NEW"
        /\ ords[i].price # NoPrice
        /\ Remaining(ords[i]) > 0
        /\ ords[i].side = side}

\* bid_levels / ask_levels: the remainders summed under the key of the price
\* (Decimal(str(price)) keeps equal prices equal and different prices
\* different)
LevelQty(ords, S, price) == SumRemaining(ords, {i \in S : ords[i].price = price})

\* sorted(levels.items()) by -price for the bids and by price for the asks,
\* the levels of quantity 0 left out
RECURSIVE SortedLevels(_, _, _, _)
SortedLevels(ords, S, prices, side) ==
    IF prices = {} THEN <<>>
    ELSE LET best == CHOOSE p \in prices :
                         \A q \in prices : IF side = "BUY" THEN p >= q ELSE p <= q
             qty == LevelQty(ords, S, best)
             rest == SortedLevels(ords, S, prices \ {best}, side)
         IN IF qty > 0 THEN <<[price |-> best, qty |-> qty]>> \o rest ELSE rest

\* the slice [:limit]
Slice(seq, limit) ==
    IF limit >= 0 THEN SubSeq(seq, 1, Min(limit, Len(seq)))
    ELSE SubSeq(seq, 1, IF Len(seq) + limit > 0 THEN Len(seq) + limit ELSE 0)

SideLevels(ords, ticker, side, limit) ==
    LET S == OrderbookOrders(ords, ticker, side)
    IN Slice(SortedLevels(ords, S, {ords[i].price : i \in S}, side), limit)

get_orderbook(ords, insts, ticker, limit) ==
    IF ticker \notin insts THEN [found |-> FALSE, bid_levels |-> <<>>, ask_levels |-> <<>>]
    ELSE [found |-> TRUE,
          bid_levels |-> SideLevels(ords, ticker, "BUY", limit),
          ask_levels |-> SideLevels(ords, ticker, "SELL", limit)]

\* ------------------------------------------------------------------ check_market_order_executable
\* the counter-orders with a positive remainder that the check counts
MarketCounterOrders(ords, ticker, side) ==
    {i \in 1..Len(ords) :
        /\ ords[i].ticker = ticker
        /\ ords[i].side = OppositeSide(side)
        /\ ords[i].status \in OpenStatuses
        /\ Remaining(ords[i]) > 0}

\* mutant: each counter-order walked costs its price once, whatever is taken
RECURSIVE WalkCost_Unit(_, _, _)
WalkCost_Unit(ords, ids, remaining) ==
    IF ids = <<>> \/ remaining <= 0 THEN [cost |-> 0, raised |-> FALSE]
    ELSE LET o == ords[Head(ids)]
             matched == Min(remaining, Remaining(o))
         IN IF o.price = NoPrice THEN [cost |-> 0, raised |-> TRUE]
            ELSE LET rest == WalkCost_Unit(ords, Tail(ids), remaining - matched)
                 IN [cost |-> o.price + rest.cost, raised |-> rest.raised]

\* the cost loop: matched * order.price raises TypeError on a price of None
RECURSIVE WalkCost(_, _, _)
WalkCost(ords, ids, remaining) ==
    IF ids = <<>> \/ remaining <= 0 THEN [cost |-> 0, raised |-> FALSE]
    ELSE LET o == ords[Head(ids)]
             matched == Min(remaining, Remaining(o))
         IN IF o.price = NoPrice THEN [cost |-> 0, raised |-> TRUE]
            ELSE LET rest == WalkCost(ords, Tail(ids), remaining - matched)
                 IN [cost |-> matched * o.price + rest.cost, raised |-> rest.raised]

\* (can_execute, estimated_cost), and raised when the call ends in TypeError.
\* The query orders by price alone; orders of one price cost the same in
\* either order, so ties are walked by id.
check_market_order_executable(ords, ticker, side, quantity) ==
    LET S == MarketCounterOrders(ords, ticker, side)
    IN IF S = {} THEN [can |-> FALSE, raised |-> FALSE, cost |-> 0]
       ELSE IF SumRemaining(ords, S) < quantity
       THEN [can |-> FALSE, raised |-> FALSE, cost |-> 0]
       ELSE LET w == WalkCost(ords, SortIds(ords, side, S), quantity)
            IN [can |-> ~w.raised, raised |-> w.raised, cost |-> w.cost]

\* ------------------------------------------------------------------ create_order: admission
\* mutant: the result of the feasibility check is not looked at
MarketBuyVerdict_Unchecked(chk, available_rub) ==
    IF chk.raised THEN "error"
    ELSE IF available_rub < chk.cost THEN "insufficient"
    ELSE "ok"

\* a MARKET BUY after check_market_order_executable
MarketBuyVerdict(chk, available_rub) ==
    IF chk.raised THEN "error"
    ELSE IF ~chk.can THEN "not_executable"
    ELSE IF available_rub < chk.cost THEN "insufficient"
    ELSE "ok"

\* mutant: a LIMIT BUY is checked against the price of one unit
Admission_UnitPrice(ords, bal, insts, r) ==
    IF r.ticker \notin insts THEN "not_found"
    ELSE IF RUB \notin insts THEN "no_rub"
    ELSE IF r.side = "BUY"
    THEN IF ~HasRow(bal, r.user, RUB) THEN "no_balance"
         ELSE LET available_rub == bal[<<r.user, RUB>>] - get_reserved_balance(ords, r.user, RUB)
              IN IF available_rub <= 0 THEN "nothing_available"
                 ELSE IF r.type = "LIMIT"
                 THEN IF available_rub < r.price THEN "insufficient" ELSE "ok"
                 ELSE MarketBuyVerdict(
                          check_market_order_executable(ords, r.ticker, r.side, r.quantity),
                          available_rub)
    ELSE IF ~HasRow(bal, r.user, r.ticker) THEN "no_balance"
         ELSE LET available_asset ==
                      bal[<<r.user, r.ticker>>] - get_reserved_balance(ords, r.user, r.ticker)
              IN IF available_asset <= 0 THEN "nothing_available"
                 ELSE IF available_asset < r.quantity THEN "insufficient"
                 ELSE "ok"

\* mutant: a SELL is not checked against its quantity
Admission_NoQuantityCheck(ords, bal, insts, r) ==
    IF r.ticker \notin insts THEN "not_found"
    ELSE IF RUB \notin insts THEN "no_rub"
    ELSE IF r.side = "BUY"
    THEN IF ~HasRow(bal, r.user, RUB) THEN "no_balance"
         ELSE LET available_rub == bal[<<r.user, RUB>>] - get_reserved_balance(ords, r.user, RUB)
              IN IF available_rub <= 0 THEN "nothing_available"
                 ELSE IF r.type = "LIMIT"
                 THEN IF available_rub < r.price * r.quantity THEN "insufficient" ELSE "ok"
                 ELSE MarketBuyVerdict(
                          check_market_order_executable(ords, r.ticker, r.side, r.quantity),
                          available_rub)
    ELSE IF ~HasRow(bal, r.user, r.ticker) THEN "no_balance"
         ELSE LET available_asset ==
                      bal[<<r.user, r.ticker>>] - get_reserved_balance(ords, r.user, r.ticker)
              IN IF available_asset <= 0 THEN "nothing_available"
                 ELSE "ok"

\* "ok", or why the request is turned down before anything is written
Admission(ords, bal, insts, r) ==
    IF r.ticker \notin insts THEN "not_found"
    ELSE IF RUB \notin insts THEN "no_rub"
    ELSE IF r.side = "BUY"
    THEN IF ~HasRow(bal, r.user, RUB) THEN "no_balance"
         ELSE LET available_rub == bal[<<r.user, RUB>>] - get_reserved_balance(ords, r.user, RUB)
              IN IF available_rub <= 0 THEN "nothing_available"
                 ELSE IF r.type = "LIMIT"
                 THEN IF available_rub < r.price * r.quantity THEN "insufficient" ELSE "ok"
                 ELSE MarketBuyVerdict(
                          check_market_order_executable(ords, r.ticker, r.side, r.quantity),
                          available_rub)
    ELSE IF ~HasRow(bal, r.user, r.ticker) THEN "no_balance"
         ELSE LET available_asset ==
                      bal[<<r.user, r.ticker>>] - get_reserved_balance(ords, r.user, r.ticker)
              IN IF available_asset <= 0 THEN "nothing_available"
                 ELSE IF available_asset < r.quantity THEN "insufficient"
                 ELSE "ok"

NewOrder(r) ==
    [user |-> r.user, ticker |-> r.ticker, side |-> r.side, type |-> r.type,
     quantity |-> r.quantity, price |-> r.price, filled_quantity |-> 0, status |-> "NEW"]

\* ------------------------------------------------------------------ create_order: reservation
ReserveFunds(bal, o) ==
    IF o.side = "BUY" /\ o.type = "LIMIT"
    THEN [bal EXCEPT ![<<o.user, RUB>>] = @ - o.price * o.quantity]
    ELSE IF o.side = "SELL"
    THEN [bal EXCEPT ![<<o.user, o.ticker>>] = @ - o.quantity]
    ELSE bal

\* ------------------------------------------------------------------ execute_matching
\* mutant: cancelled orders are selected too
MatchStatuses_WithCancelled == {"NEW", "CANCELLED"}

\* the statuses of the counter-orders the matcher selects
MatchStatuses == {"NEW"}

\* a LIMIT aggressor takes only compatible prices (a NULL price never compares)
\* mutant: the limit of the aggressor does not filter the counter-orders
PriceCompatible_Always(o, c) == TRUE

PriceCompatible(o, c) ==
    o.type = "LIMIT" =>
        /\ c.price # NoPrice
        /\ IF o.side = "BUY" THEN c.price <= o.price ELSE c.price >= o.price

CounterOrderIds(ords, oid) ==
    {i \in 1..Len(ords) :
        /\ ords[i].ticker = ords[oid].ticker
        /\ ords[i].side = OppositeSide(ords[oid].side)
        /\ ords[i].status \in MatchStatuses
        /\ ords[i].quantity > ords[i].filled_quantity
        /\ PriceCompatible(ords[oid], ords[i])}

\* counter_orders, in the order of the query
CounterOrders(ords, oid) == SortIds(ords, ords[oid].side, CounterOrderIds(ords, oid))

\* mutant: own counter-orders are not passed over
IsOwnOrder_Never(o, c) == FALSE

IsOwnOrder(o, c) == c.user = o.user

\* mutant: the counter-order's remainder is not looked at
DealQuantity_Aggressor(o, c) == Remaining(o)

DealQuantity(o, c) == Min(Remaining(o), Remaining(c))

\* mutant: a LIMIT aggressor trades at its own price
DealPrice_Aggressor(o, c) == IF o.type = "LIMIT" THEN o.price ELSE c.price

DealPrice(o, c) == c.price

\* mutant: a partly filled aggressor keeps its status
FinalStatus_NoPartial(o) ==
    IF o.filled_quantity >= o.quantity THEN "EXECUTED"
    ELSE IF o.filled_quantity = 0 /\ o.type = "MARKET" THEN "CANCELLED"
    ELSE o.status

\* the status the end of execute_matching gives the aggressor
FinalStatus(o) ==
    IF o.filled_quantity >= o.quantity THEN "EXECUTED"
    ELSE IF o.filled_quantity > 0 THEN "PARTIALLY_EXECUTED"
    ELSE IF o.type = "MARKET" THEN "CANCELLED"
    ELSE o.status

\* ------------------------------------------------------------------ execute_deal
BuyerId(ords, oid, cid) == IF ords[oid].side = "BUY" THEN oid ELSE cid

SellerId(ords, oid, cid) == IF ords[oid].side = "BUY" THEN cid ELSE oid

\* mutant: no price improvement is refunded
RefundAmount_None(buyer_order, quantity, price) == 0

\* the refund of the price improvement to a LIMIT buyer
RefundAmount(buyer_order, quantity, price) ==
    IF buyer_order.type = "LIMIT" THEN quantity * buyer_order.price - quantity * price ELSE 0

\* mutant: a MARKET buyer is charged the amount of the deal
DealBalances_BuyerPays(ords, bal, oid, cid, quantity, price) ==
    LET buyer_order == ords[BuyerId(ords, oid, cid)]
        seller_order == ords[SellerId(ords, oid, cid)]
        b1 == Credit(bal, buyer_order.user, ords[oid].ticker, quantity)
        b2 == Credit(b1, seller_order.user, RUB, quantity * price)
        refund == RefundAmount(buyer_order, quantity, price)
    IN IF buyer_order.type = "MARKET" THEN CreditIfRow(b2, buyer_order.user, RUB, 0 - quantity * price)
       ELSE IF refund > 0 THEN CreditIfRow(b2, buyer_order.user, RUB, refund) ELSE b2

DealBalances(ords, bal, oid, cid, quantity, price) ==
    LET buyer_order == ords[BuyerId(ords, oid, cid)]
        seller_order == ords[SellerId(ords, oid, cid)]
        b1 == Credit(bal, buyer_order.user, ords[oid].ticker, quantity)
        b2 == Credit(b1, seller_order.user, RUB, quantity * price)
        refund == RefundAmount(buyer_order, quantity, price)
    IN IF refund > 0 THEN CreditIfRow(b2, buyer_order.user, RUB, refund) ELSE b2

CounterStatus(c) ==
    IF c.filled_quantity >= c.quantity THEN "EXECUTED" ELSE "PARTIALLY_EXECUTED"

DealOrders(ords, oid, cid, quantity) ==
    LET filled == [ords EXCEPT ![oid].filled_quantity = @ + quantity,
                               ![cid].filled_quantity = @ + quantity]
    IN [filled EXCEPT ![cid].status = CounterStatus(filled[cid])]

\* ------------------------------------------------------------------ refunds of a cancelled order
\* what is given back for the unfilled part: the ticker and the amount
RefundTicker(o) == IF o.side = "BUY" THEN RUB ELSE o.ticker

RefundOf(o) ==
    IF Remaining(o) <= 0 THEN 0
    ELSE IF o.side = "BUY"
    THEN IF o.type = "LIMIT" /\ o.price # NoPrice THEN Remaining(o) * o.price ELSE 0
    ELSE Remaining(o)

\* mutant: the whole quantity is refunded, filled or not
CancelBalances_Whole(bal, o) ==
    IF Remaining(o) > 0 /\ (o.side = "SELL" \/ o.type = "LIMIT")
    THEN Credit(bal, o.user, RefundTicker(o),
                IF o.side = "BUY" THEN o.quantity * o.price ELSE o.quantity)
    ELSE bal

\* cancel_order: the balance row is created when it is missing
CancelBalances(bal, o) ==
    IF Remaining(o) > 0 /\ (o.side = "SELL" \/ o.type = "LIMIT")
    THEN Credit(bal, o.user, RefundTicker(o), RefundOf(o))
    ELSE bal

\* mutant: the rollback gives nothing back
ReturnFunds_None(bal, o) == bal

\* cancel_order_and_return_funds: only an existing row is credited
ReturnFunds(bal, o) ==
    IF Remaining(o) > 0 /\ (o.side = "SELL" \/ (o.type = "LIMIT" /\ o.price # NoPrice))
    THEN CreditIfRow(bal, o.user, RefundTicker(o), RefundOf(o))
    ELSE bal

\* ------------------------------------------------------------------ the state machine
\* balances as deposits leave them: a row per pair of RowSets
Endowment(rows) == [ut \in rows |-> IF ut[2] = RUB THEN InitRub ELSE InitAsset]

RowSets ==
    {Users \X Tickers,
     (Users \X Tickers) \ {<<"u1", RUB>>, <<"u2", "AAA">>}}

\* the instruments table: complete, without RUB, without the asset
InstrumentSets == {Tickers, Assets, {RUB}}

NoResting == [id |-> NoOrder, balances |-> <<>>]

\* the worker threads that handle requests at the same time, a Session each
Workers == {1, 2}

\* a Session between requests
IdleSession ==
    [pc |-> "idle", req |-> NoReq, cur |-> NoOrder, counter_orders |-> <<>>,
     loaded |-> <<>>, fresh |-> FALSE]

Init ==
    /\ orders = <<>>
    /\ \E rows \in RowSets : balances = Endowment(rows)
    /\ instruments \in InstrumentSets
    /\ pc = "idle"
    /\ req = NoReq
    /\ cur = NoOrder
    /\ counter_orders = <<>>
    /\ trades = <<>>
    /\ pre = [orders |-> orders, balances |-> balances]
    /\ resting = NoResting
    /\ sessions = [w \in Workers |-> IdleSession]
    /\ refunds = <<>>

\* mutant: the order is added before the checks are made
RejectOrder_AfterAdd(r) ==
    /\ pc = "idle"
    /\ Admission(orders, balances, instruments, r) # "ok"
    /\ req' = r
    /\ orders' = Append(orders, NewOrder(r))
    /\ pc' = "done"
    /\ UNCHANGED <<balances, instruments, cur, counter_orders, trades, pre, resting, sessions, refunds>>

\* create_order: a check fails, HTTPException before anything is written
RejectOrder(r) ==
    /\ pc = "idle"
    /\ Admission(orders, balances, instruments, r) # "ok"
    /\ req' = r
    /\ pc' = "done"
    /\ UNCHANGED <<orders, balances, instruments, cur, counter_orders, trades, pre, resting, sessions, refunds>>

\* create_order: the checks pass, the order is added and committed
AdmitOrder(r) ==
    /\ pc = "idle"
    /\ Admission(orders, balances, instruments, r) = "ok"
    /\ req' = r
    /\ orders' = Append(orders, NewOrder(r))
    /\ cur' = Len(orders) + 1
    /\ pc' = "reserve"
    /\ UNCHANGED <<balances, instruments, counter_orders, trades, pre, resting, sessions, refunds>>

\* create_order: the funds are withheld and committed
Reserve ==
    /\ pc = "reserve"
    /\ balances' = ReserveFunds(balances, orders[cur])
    /\ pc' = "match"
    /\ UNCHANGED <<orders, instruments, req, cur, counter_orders, trades, pre, resting, sessions, refunds>>

\* mutant: the matcher goes on whatever the status is
MatcherReturns_Never(o) == FALSE

\* execute_matching returns at once for an order that is not NEW
MatcherReturns(o) == o.status # "NEW"

\* execute_matching raises before its loop
MatchingRaises(ords, oid) ==
    /\ ~MatcherReturns(ords[oid])
    /\ \/ /\ ords[oid].type = "MARKET"
          /\ ~check_market_order_executable(
                  ords, ords[oid].ticker, ords[oid].side, ords[oid].quantity).can
       \/ /\ ords[oid].type = "MARKET"
          /\ CounterOrders(ords, oid) = <<>>

\* execute_matching up to its loop: the order is loaded, a MARKET order is
\* checked, the counter-orders are queried
StartMatching ==
    /\ pc = "match"
    /\ ~MatchingRaises(orders, cur)
    /\ IF MatcherReturns(orders[cur])
       THEN pc' = "done" /\ counter_orders' = <<>>
       ELSE pc' = "loop" /\ counter_orders' = CounterOrders(orders, cur)
    /\ UNCHANGED <<orders, balances, instruments, req, cur, trades, pre, resting, sessions, refunds>>

\* execute_matching raises; create_order catches it and calls
\* cancel_order_and_return_funds
FailMatching ==
    /\ pc = "match"
    /\ req.op = "create"
    /\ MatchingRaises(orders, cur)
    /\ IF orders[cur].status \in OpenStatuses
       THEN /\ balances' = ReturnFunds(balances, orders[cur])
            /\ orders' = [orders EXCEPT ![cur].status = "CANCELLED"]
       ELSE UNCHANGED <<orders, balances>>
    /\ pc' = "done"
    /\ UNCHANGED <<instruments, req, cur, counter_orders, trades, pre, resting, sessions, refunds>>

\* the loop passes over a counter-order: the aggressor's own, or one with
\* nothing left
SkipCounter ==
    /\ pc = "loop"
    /\ counter_orders # <<>>
    /\ orders[cur].filled_quantity < orders[cur].quantity
    /\ \/ IsOwnOrder(orders[cur], orders[Head(counter_orders)])
       \/ Remaining(orders[Head(counter_orders)]) <= 0
    /\ counter_orders' = Tail(counter_orders)
    /\ UNCHANGED <<orders, balances, instruments, pc, req, cur, trades, pre, resting, sessions, refunds>>

\* the loop trades with a counter-order: execute_deal, committed
Deal ==
    /\ pc = "loop"
    /\ counter_orders # <<>>
    /\ orders[cur].filled_quantity < orders[cur].quantity
    /\ ~IsOwnOrder(orders[cur], orders[Head(counter_orders)])
    /\ Remaining(orders[Head(counter_orders)]) > 0
    /\ LET cid == Head(counter_orders)
           deal_quantity == DealQuantity(orders[cur], orders[cid])
           deal_price == DealPrice(orders[cur], orders[cid])
       IN /\ balances' = DealBalances(orders, balances, cur, cid, deal_quantity, deal_price)
          /\ orders' = DealOrders(orders, cur, cid, deal_quantity)
          /\ trades' = Append(trades,
                 [order |-> cur, counter |-> cid,
                  buyer |-> orders[BuyerId(orders, cur, cid)].user,
                  seller |-> orders[SellerId(orders, cur, cid)].user,
                  quantity |-> deal_quantity, price |-> deal_price])
    /\ counter_orders' = Tail(counter_orders)
    /\ UNCHANGED <<instruments, pc, req, cur, pre, resting, sessions, refunds>>

\* the loop ends (exhausted, or the aggressor is filled) and the aggressor's
\* status is settled and committed
FinishMatching ==
    /\ pc = "loop"
    /\ \/ counter_orders = <<>>
       \/ orders[cur].filled_quantity >= orders[cur].quantity
    /\ orders' = [orders EXCEPT ![cur].status = FinalStatus(orders[cur])]
    /\ counter_orders' = <<>>
    /\ pc' = "done"
    /\ UNCHANGED <<balances, instruments, req, cur, trades, pre, resting, sessions, refunds>>

\* mutant: the status of the order is not looked at
CancelVerdict_AnyStatus(ords, r) ==
    IF r.id \notin 1..Len(ords) THEN "not_found"
    ELSE IF ords[r.id].user # r.user THEN "not_found"
    ELSE "ok"

\* cancel_order: why the request is turned down, or "ok"
CancelVerdict(ords, r) ==
    IF r.id \notin 1..Len(ords) THEN "not_found"
    ELSE IF ords[r.id].user # r.user THEN "not_found"
    ELSE IF ords[r.id].status \notin OpenStatuses THEN "bad_status"
    ELSE "ok"

\* cancel_order turns the request down
RejectCancel(r) ==
    /\ pc = "idle"
    /\ CancelVerdict(orders, r) # "ok"
    /\ req' = r
    /\ pc' = "done"
    /\ UNCHANGED <<orders, balances, instruments, cur, counter_orders, trades, pre, resting, sessions, refunds>>

\* cancel_order: the refund and the CANCELLED status, committed together
CancelOrder(r) ==
    /\ pc = "idle"
    /\ CancelVerdict(orders, r) = "ok"
    /\ req' = r
    /\ balances' = CancelBalances(balances, orders[r.id])
    /\ orders' = [orders EXCEPT ![r.id].status = "CANCELLED"]
    /\ pc' = "done"
    /\ UNCHANGED <<instruments, cur, counter_orders, trades, pre, resting, sessions, refunds>>

\* the order a completed create_order left in the book with nothing filled,
\* remembered with the balances from before its admission
LeftResting ==
    IF /\ req.op = "create"
       /\ cur # NoOrder
       /\ orders[cur].status = "NEW"
       /\ orders[cur].filled_quantity = 0
    THEN [id |-> cur, balances |-> pre.balances]
    ELSE NoResting

\* the response is returned; the handler's locals are gone
Respond ==
    /\ pc = "done"
    /\ pc' = "idle"
    /\ req' = NoReq
    /\ cur' = NoOrder
    /\ trades' = <<>>
    /\ pre' = [orders |-> orders, balances |-> balances]
    /\ resting' = LeftResting
    /\ UNCHANGED <<orders, balances, instruments, counter_orders, sessions, refunds>>

\* the create_order requests that may arrive: none once max_orders orders exist
Arriving(requests, max_orders) == IF Len(orders) < max_orders THEN requests ELSE {}

\* the cancel_order requests that may arrive: by its owner for every order,
\* and one that finds no order of the caller
CancelArriving ==
    {r \in CancelRequests :
        \/ r.id <= Len(orders) /\ r.user = orders[r.id].user
        \/ r.id = Len(orders) + 1 /\ r.user = "u1"}

Next ==
    \/ \E r \in Arriving(LimitRequests \cup MarketRequests, MaxOrders) : RejectOrder(r)
    \/ \E r \in Arriving(LimitRequests \cup MarketRequests, MaxOrders) : AdmitOrder(r)
    \/ Reserve
    \/ StartMatching
    \/ FailMatching
    \/ SkipCounter
    \/ Deal
    \/ FinishMatching
    \/ \E r \in CancelArriving : RejectCancel(r)
    \/ \E r \in CancelArriving : CancelOrder(r)
    \/ Respond

Spec == Init /\ [][Next]_vars

\* Runs one order longer, of LIMIT orders of two users alone: such orders
\* never make execute_matching raise, and nothing is cancelled.
MaxOrdersDeep == 4

DeepRequests == {r \in LimitRequests : r.user \in {"u1", "u2"}}

NextDeep ==
    \/ \E r \in Arriving(DeepRequests, MaxOrdersDeep) : RejectOrder(r)
    \/ \E r \in Arriving(DeepRequests, MaxOrdersDeep) : AdmitOrder(r)
    \/ Reserve
    \/ StartMatching
    \/ SkipCounter
    \/ Deal
    \/ FinishMatching
    \/ Respond

SpecDeep == Init /\ [][NextDeep]_vars

\* execute_matching called again, outside create_order, for an order of the
\* table
InvokeMatching(r) ==
    /\ pc = "idle"
    /\ r.id \in 1..Len(orders)
    /\ req' = r
    /\ cur' = r.id
    /\ pc' = "match"
    /\ UNCHANGED <<orders, balances, instruments, counter_orders, trades, pre, resting, sessions, refunds>>

\* The requests of Spec, and the matcher called again between them.
NextRematch ==
    \/ \E r \in Arriving(LimitRequests \cup MarketRequests, MaxOrders) : RejectOrder(r)
    \/ \E r \in Arriving(LimitRequests \cup MarketRequests, MaxOrders) : AdmitOrder(r)
    \/ Reserve
    \/ StartMatching
    \/ FailMatching
    \/ SkipCounter
    \/ Deal
    \/ FinishMatching
    \/ \E r \in CancelArriving : RejectCancel(r)
    \/ \E r \in CancelArriving : CancelOrder(r)
    \/ \E r \in MatchCalls : InvokeMatching(r)
    \/ Respond

SpecRematch == Init /\ [][NextRematch]_vars

\* ------------------------------------------------------------------ requests handled at the same time
\* create_order is a plain def: FastAPI runs every call on a thread of its
\* pool, each with the Session of get_db, and nothing in the code locks.  A
\* step is a commit together with the reads the Session made since its
\* commit before; a row the Session loaded earlier and has not committed
\* since (expire_on_commit) is read as it was loaded.  Here pc, req, cur,
\* counter_orders, pre and resting stay as Init leaves them, and trades
\* collects the legs of all passes.
MaxOrdersConc == 3

\* LIMIT orders of two owners: execute_matching raises for none of them
ConcRequests == {r \in LimitRequests : r.user \in {"u1", "u2"}}

\* the rows of the orders table as the Session of a matching pass reads
\* them: as loaded by the queries of execute_matching until the first
\* commit of the pass, as committed after it
View(s) == IF s.fresh THEN s.loaded ELSE orders

\* create_order in worker w: the checks pass, the order is added and committed
AdmitOrderIn(w, r) ==
    /\ sessions[w].pc = "idle"
    /\ Admission(orders, balances, instruments, r) = "ok"
    /\ orders' = Append(orders, NewOrder(r))
    /\ sessions' = [sessions EXCEPT ![w] =
                        [IdleSession EXCEPT !.pc = "reserve", !.req = r,
                                            !.cur = Len(orders) + 1]]
    /\ UNCHANGED <<balances, instruments, pc, req, cur, counter_orders, trades, pre, resting, refunds>>

\* create_order in worker w: the balance row, expired by the commit before,
\* is loaded again, the funds are withheld and committed
ReserveIn(w) ==
    /\ sessions[w].pc = "reserve"
    /\ balances' = ReserveFunds(balances, orders[sessions[w].cur])
    /\ sessions' = [sessions EXCEPT ![w].pc = "match"]
    /\ UNCHANGED <<orders, instruments, pc, req, cur, counter_orders, trades, pre, resting, refunds>>

\* execute_matching in worker w up to its loop
StartMatchingIn(w) ==
    /\ sessions[w].pc = "match"
    /\ sessions' = [sessions EXCEPT ![w] =
          IF MatcherReturns(orders[sessions[w].cur])
          THEN IdleSession
          ELSE [@ EXCEPT !.pc = "loop",
                         !.counter_orders = CounterOrders(orders, sessions[w].cur),
                         !.loaded = orders,
                         !.fresh = TRUE]]
    /\ UNCHANGED <<orders, balances, instruments, pc, req, cur, counter_orders, trades, pre,
                   resting, refunds>>

\* the loop of worker w passes over a counter-order
SkipCounterIn(w) ==
    LET s == sessions[w]
    IN /\ s.pc = "loop"
       /\ s.counter_orders # <<>>
       /\ View(s)[s.cur].filled_quantity < View(s)[s.cur].quantity
       /\ \/ IsOwnOrder(View(s)[s.cur], View(s)[Head(s.counter_orders)])
          \/ Remaining(View(s)[Head(s.counter_orders)]) <= 0
       /\ sessions' = [sessions EXCEPT ![w].counter_orders = Tail(@)]
       /\ UNCHANGED <<orders, balances, instruments, pc, req, cur, counter_orders, trades,
                      pre, resting, refunds>>

\* the loop of worker w trades with a counter-order: execute_deal computes
\* the fills from the rows as the Session reads them and its commit writes
\* the changed columns: filled_quantity of both orders, status of the
\* counter-order, amount of the balance rows it has just queried
DealIn(w) ==
    LET s == sessions[w]
        cid == Head(s.counter_orders)
        order == View(s)[s.cur]
        counter_order == View(s)[cid]
        deal_quantity == DealQuantity(order, counter_order)
        deal_price == DealPrice(order, counter_order)
        written == DealOrders(View(s), s.cur, cid, deal_quantity)
    IN /\ s.pc = "loop"
       /\ s.counter_orders # <<>>
       /\ order.filled_quantity < order.quantity
       /\ ~IsOwnOrder(order, counter_order)
       /\ Remaining(counter_order) > 0
       /\ balances' = DealBalances(orders, balances, s.cur, cid, deal_quantity, deal_price)
       /\ orders' = [orders EXCEPT ![s.cur].filled_quantity = written[s.cur].filled_quantity,
                                   ![cid].filled_quantity = written[cid].filled_quantity,
                                   ![cid].status = written[cid].status]
       /\ trades' = Append(trades,
              [order |-> s.cur, counter |-> cid,
               buyer |-> orders[BuyerId(orders, s.cur, cid)].user,
               seller |-> orders[SellerId(orders, s.cur, cid)].user,
               quantity |-> deal_quantity, price |-> deal_price])
       /\ sessions' = [sessions EXCEPT ![w].counter_orders = Tail(@), ![w].fresh = FALSE]
       /\ UNCHANGED <<instruments, pc, req, cur, counter_orders, pre, resting, refunds>>

\* the loop of worker w ends; the aggressor's status is written when it
\* differs from the status the Session reads, and the response is returned
FinishMatchingIn(w) ==
    LET s == sessions[w]
        order == View(s)[s.cur]
    IN /\ s.pc = "loop"
       /\ \/ s.counter_orders = <<>>
          \/ order.filled_quantity >= order.quantity
       /\ orders' = IF FinalStatus(order) # order.status
                    THEN [orders EXCEPT ![s.cur].status = FinalStatus(order)]
                    ELSE orders
       /\ sessions' = [sessions EXCEPT ![w] = IdleSession]
       /\ UNCHANGED <<balances, instruments, pc, req, cur, counter_orders, trades, pre,
                      resting, refunds>>

NextConc ==
    \E w \in Workers :
        \/ \E r \in Arriving(ConcRequests, MaxOrdersConc) : AdmitOrderIn(w, r)
        \/ ReserveIn(w)
        \/ StartMatchingIn(w)
        \/ SkipCounterIn(w)
        \/ DealIn(w)
        \/ FinishMatchingIn(w)

\* the instruments and the balance rows are all there
InitConc ==
    /\ Init
    /\ instruments = Tickers
    /\ DOMAIN balances = Users \X Tickers

SpecConc == InitConc /\ [][NextConc]_vars

\* ------------------------------------------------------------------ cancel_order at the same time as a matching pass
\* the worker threads that handle the create_order requests and those that
\* handle the cancel_order requests
Creators == {1}

Cancellers == {2}

\* the cancel_order requests of the owners of the orders
OwnerCancels == {r \in CancelRequests : r.id <= Len(orders) /\ r.user = orders[r.id].user}

\* cancel_order in worker w: the order is loaded and its status passes the
\* check (a request turned down writes nothing)
CancelLoadIn(w, r) ==
    /\ sessions[w].pc = "idle"
    /\ CancelVerdict(orders, r) = "ok"
    /\ sessions' = [sessions EXCEPT ![w] =
                        [IdleSession EXCEPT !.pc = "cancel", !.req = r, !.cur = r.id,
                                            !.loaded = orders, !.fresh = TRUE]]
    /\ UNCHANGED <<orders, balances, instruments, pc, req, cur, counter_orders, trades, pre,
                   resting, refunds>>

\* cancel_order in worker w: the remainder of the order as it was loaded is
\* added to the balance row queried now, the status is set, and both are
\* committed; of the order only the changed column, status, is written
CancelCommitIn(w) ==
    LET s == sessions[w]
        order == View(s)[s.cur]
    IN /\ s.pc = "cancel"
       /\ balances' = CancelBalances(balances, order)
       /\ orders' = [orders EXCEPT ![s.cur].status = "CANCELLED"]
       /\ refunds' = Append(refunds,
              [order |-> s.cur,
               quantity |-> IF balances' # balances THEN Remaining(order) ELSE 0])
       /\ sessions' = [sessions EXCEPT ![w] = IdleSession]
       /\ UNCHANGED <<instruments, pc, req, cur, counter_orders, trades, pre, resting>>

NextConcCancel ==
    \/ \E w \in Creators :
          \/ \E r \in Arriving(ConcRequests, MaxOrdersConc) : AdmitOrderIn(w, r)
          \/ ReserveIn(w)
          \/ StartMatchingIn(w)
          \/ SkipCounterIn(w)
          \/ DealIn(w)
          \/ FinishMatchingIn(w)
    \/ \E w \in Cancellers :
          \/ \E r \in OwnerCancels : CancelLoadIn(w, r)
          \/ CancelCommitIn(w)

SpecConcCancel == InitConc /\ [][NextConcCancel]_vars

\* ------------------------------------------------------------------ what the claims speak of
\* the amount of a balance, 0 when the row does not exist
Amount(bal, u, t) == IF HasRow(bal, u, t) THEN bal[<<u, t>>] ELSE 0

Ids == 1..Len(orders)

\* an operation has completed: its response is due or given
Completed == pc \in {"done", "idle"}

\* reserved(owner, ticker) as the specification defines it: over the owner's
\* open orders, the remainder of the SELL orders of the ticker, and in RUB
\* the remainder times the limit price of the LIMIT BUY orders
RECURSIVE SpecReservedUpTo(_, _, _, _)
SpecReservedUpTo(ords, u, t, n) ==
    IF n = 0 THEN 0
    ELSE SpecReservedUpTo(ords, u, t, n - 1)
         + (IF ords[n].user = u /\ ords[n].status \in OpenStatuses
            THEN IF ords[n].side = "SELL" /\ ords[n].ticker = t THEN Remaining(ords[n])
                 ELSE IF ords[n].side = "BUY" /\ ords[n].type = "LIMIT" /\ t = RUB
                 THEN Remaining(ords[n]) * ords[n].price
                 ELSE 0
            ELSE 0)

SpecReserved(ords, u, t) == SpecReservedUpTo(ords, u, t, Len(ords))

\* C1: after every completed operation the stored amount of every
\* (owner, ticker) is at least reserved(owner, ticker).
C1_AmountCoversReserved ==
    Completed =>
        \A u \in Users, t \in Tickers :
            Amount(balances, u, t) >= SpecReserved(orders, u, t)

\* C2: in every reachable state every order has 0 <= filled_quantity <= quantity.
C2_FilledWithinQuantity ==
    \A i \in Ids : 0 <= orders[i].filled_quantity /\ orders[i].filled_quantity <= orders[i].quantity

\* a trade leg has filled a counter-order of one unit against an aggressor
\* that wanted more
C2_Witness ==
    /\ pc = "loop"
    /\ trades # <<>>
    /\ orders[cur].quantity > 1
    /\ \E i \in Ids :
          /\ i = trades[Len(trades)].counter
          /\ orders[i].quantity < orders[cur].quantity
          /\ orders[i].filled_quantity = orders[i].quantity

\* the status of an order agrees with its filled_quantity
StatusAgrees(o) ==
    /\ o.status = "EXECUTED" <=> o.filled_quantity = o.quantity
    /\ o.status = "PARTIALLY_EXECUTED" <=> (0 < o.filled_quantity /\ o.filled_quantity < o.quantity)
    /\ o.status = "NEW" <=> o.filled_quantity = 0

C4_NoSelfTrade ==
    /\ [](\A k \in 1..Len(trades) :
             /\ trades[k].buyer # trades[k].seller
             /\ orders[trades[k].order].user # orders[trades[k].counter].user)
    /\ [][(/\ pc = "loop"
           /\ counter_orders # <<>>
           /\ orders[cur].filled_quantity < orders[cur].quantity
           /\ orders[Head(counter_orders)].user = orders[cur].user)
          => (/\ orders' = orders
              /\ balances' = balances
              /\ trades' = trades
              /\ counter_orders' = Tail(counter_orders))]_vars

\* the aggressor has passed over its owner's eligible counter-order, which
\* is still untouched, and then traded with another owner's
C4_Witness ==
    /\ pc = "loop"
    /\ trades # <<>>
    /\ \E i \in CounterOrderIds(pre.orders \o <<NewOrder(req)>>, cur) :
          /\ orders[i].user = orders[cur].user
          /\ orders[i] = pre.orders[i]
          /\ Precedes(orders, orders[cur].side, i, trades[1].counter)

\* the counter-orders of another owner that are in the book for aggressor
\* `oid` when the book holds the orders of `statuses`: opposite side, same
\* ticker, a positive remainder, a compatible price
Eligible(ords, oid, statuses) ==
    {i \in 1..Len(ords) :
        /\ i # oid
        /\ ords[i].ticker = ords[oid].ticker
        /\ ords[i].side = OppositeSide(ords[oid].side)
        /\ ords[i].user # ords[oid].user
        /\ ords[i].status \in statuses
        /\ Remaining(ords[i]) > 0
        /\ ords[i].price # NoPrice
        /\ PriceCompatible(ords[oid], ords[i])}

\* whenever the aggressor has traded with B, no counter-order of `statuses`
\* that comes before B in price-time order has anything left
PriorityOver(statuses) ==
    (cur # NoOrder /\ trades # <<>>) =>
        LET B == trades[Len(trades)].counter
        IN \A X \in Eligible(orders, cur, statuses) :
              (X # B /\ Precedes(orders, orders[cur].side, X, B)) => Remaining(orders[X]) = 0

\* C5: counter-orders are filled in strict price-time priority: whenever the
\* aggressor trades with resting order B, every other eligible (NEW or
\* PARTIALLY_EXECUTED) counter-order of another owner that precedes B has
\* been filled to zero.
C5_PriceTimePriority == PriorityOver(OpenStatuses)

\* price-time priority among the counter-orders of status NEW
C5_PriorityAmongNew == PriorityOver({"NEW"})

\* of two NEW SELL orders of one price, a BUY for one unit has filled the
\* earlier one
C5_WitnessAmongNew ==
    /\ pc = "done"
    /\ cur # NoOrder
    /\ req.side = "BUY"
    /\ req.quantity = 1
    /\ Len(trades) = 1
    /\ \E X \in Eligible(pre.orders \o <<NewOrder(req)>>, cur, {"NEW"}) :
          /\ X > trades[1].counter
          /\ orders[X].price = orders[trades[1].counter].price
          /\ orders[X] = pre.orders[X]

\* C6: every trade is made at the price of the resting counter-order, the
\* order created earlier, never at the aggressor's.
C6_TradeAtRestingPrice ==
    \A k \in 1..Len(trades) :
        /\ trades[k].price = orders[trades[k].counter].price
        /\ trades[k].counter < trades[k].order
        /\ trades[k].order = cur

\* a LIMIT SELL aggressor has traded with a BUY resting at a higher price
C6_Witness ==
    /\ trades # <<>>
    /\ orders[cur].type = "LIMIT"
    /\ orders[cur].side = "SELL"
    /\ trades[1].price > orders[cur].price

\* a MARKET BUY aggressor has traded at the price of the resting SELL
C6_WitnessMarket ==
    /\ trades # <<>>
    /\ orders[cur].type = "MARKET"
    /\ orders[cur].side = "BUY"
    /\ trades[1].price = orders[trades[1].counter].price

RECURSIVE TradedValue(_)
TradedValue(ts) ==
    IF ts = <<>> THEN 0 ELSE Head(ts).quantity * Head(ts).price + TradedValue(Tail(ts))

RECURSIVE TradedQuantity(_)
TradedQuantity(ts) ==
    IF ts = <<>> THEN 0 ELSE Head(ts).quantity + TradedQuantity(Tail(ts))

\* the request being handled is an admitted LIMIT BUY whose reservation is made
LimitBuyReserved ==
    /\ req.op = "create"
    /\ req.side = "BUY"
    /\ req.type = "LIMIT"
    /\ cur # NoOrder
    /\ pc \in {"match", "loop", "done"}

\* C7: a LIMIT BUY aggressor with limit P pays for a fill of q at resting
\* price p <= P exactly q * p: in every committed state from its reservation
\* on, what its owner's RUB balance has lost since admission is the value of
\* the fills at their resting prices plus P for every unit still unfilled.
C7_PriceImprovement ==
    LimitBuyReserved =>
        /\ \A k \in 1..Len(trades) : trades[k].price <= req.price
        /\ pre.balances[<<req.user, RUB>>] - balances[<<req.user, RUB>>]
             = TradedValue(trades) + Remaining(orders[cur]) * req.price

\* a LIMIT BUY at 2 has been filled for two units against a SELL resting at 1:
\* the net debit is 2
C7_Witness ==
    /\ LimitBuyReserved
    /\ pc = "done"
    /\ req.price = 2
    /\ req.quantity = 2
    /\ Len(trades) = 1
    /\ trades[1].price = 1
    /\ trades[1].quantity = 2
    /\ pre.balances[<<req.user, RUB>>] - balances[<<req.user, RUB>>] = 2

\* the trades of the current pass sold by u
SoldBy(ts, u) == SelectSeq(ts, LAMBDA t : t.seller = u)

\* the partial-fill accounting of a LIMIT BUY whose pass has ended, when the
\* book holds the orders of `statuses`
PartialFillOver(statuses) ==
    (pc = "done" /\ LimitBuyReserved) =>
        LET book == Eligible(pre.orders \o <<NewOrder(req)>>, cur, statuses)
            q == SumRemaining(pre.orders, book)
        IN (0 < q /\ q < req.quantity) =>
              /\ orders[cur].filled_quantity = q
              /\ orders[cur].status = "PARTIALLY_EXECUTED"
              /\ Amount(balances, req.user, req.ticker)
                   = Amount(pre.balances, req.user, req.ticker) + q
              /\ \A u \in Users \ {req.user} :
                    Amount(balances, u, RUB)
                      = Amount(pre.balances, u, RUB) + TradedValue(SoldBy(trades, u))
              /\ TradedQuantity(trades) = q
              /\ pre.balances[<<req.user, RUB>>] - balances[<<req.user, RUB>>]
                   - TradedValue(trades) = (req.quantity - q) * req.price

\* C8: a LIMIT BUY for Q at P that finds only q < Q units of eligible (NEW or
\* PARTIALLY_EXECUTED) resting SELL volume ends its pass with
\* filled_quantity q and status PARTIALLY_EXECUTED, its owner's asset balance
\* grown by q, the sellers' RUB balances grown by the value of their deals,
\* and (Q - q) * P still withheld for it.
C8_PartialFill == PartialFillOver(OpenStatuses)

\* the same accounting over the SELL orders of status NEW
C8_PartialFillAmongNew == PartialFillOver({"NEW"})

C8_WitnessAmongNew ==
    /\ pc = "done"
    /\ LimitBuyReserved
    /\ orders[cur].status = "PARTIALLY_EXECUTED"
    /\ SumRemaining(pre.orders, Eligible(pre.orders \o <<NewOrder(req)>>, cur, {"NEW"})) = 1

\* the request being handled is a MARKET BUY that arrived when no SELL order
\* of its ticker was open with a positive remainder
MarketBuyOnEmptyBook ==
    /\ req.op = "create"
    /\ req.side = "BUY"
    /\ req.type = "MARKET"
    /\ MarketCounterOrders(pre.orders, req.ticker, "BUY") = {}

\* C9: a MARKET BUY submitted when its ticker has no resting SELL order with
\* a positive remainder is rejected: no order is created, no trade happens
\* and no balance changes.
C9_MarketBuyRejected ==
    MarketBuyOnEmptyBook =>
        /\ pc = "done"
        /\ cur = NoOrder
        /\ orders = pre.orders
        /\ balances = pre.balances
        /\ trades = <<>>

\* such a MARKET BUY of an owner with RUB to spend has been turned down
C9_Witness ==
    /\ MarketBuyOnEmptyBook
    /\ pc = "done"
    /\ RUB \in instruments
    /\ Admission(pre.orders, pre.balances, instruments, req) = "not_executable"
    /\ pre.orders # <<>>

\* the request being handled is a cancel_order, by its owner, of an order
\* that was NEW or PARTIALLY_EXECUTED, and it has been carried out
CancelledOpen ==
    /\ pc = "done"
    /\ req.op = "cancel"
    /\ req.id \in 1..Len(pre.orders)
    /\ pre.orders[req.id].user = req.user
    /\ pre.orders[req.id].status \in OpenStatuses

\* the remaining reservation of an order: the ticker and the amount
OwedTicker(o) == IF o.side = "SELL" THEN o.ticker ELSE RUB

Owed(o) ==
    IF o.side = "SELL" THEN o.quantity - o.filled_quantity
    ELSE IF o.type = "LIMIT" THEN (o.quantity - o.filled_quantity) * o.price
    ELSE 0

\* C10: cancel_order on a NEW or PARTIALLY_EXECUTED order sets it CANCELLED
\* and credits its owner with exactly its remaining reservation, changing
\* nothing else; when the request before admitted the order and nothing of
\* it was filled, the balances are again those from before the admission.
C10_CancelRefunds ==
    CancelledOpen =>
        LET o == pre.orders[req.id]
        IN /\ orders = [pre.orders EXCEPT ![req.id].status = "CANCELLED"]
           /\ \A u \in Users, t \in Tickers :
                 Amount(balances, u, t)
                   = Amount(pre.balances, u, t)
                     + (IF u = o.user /\ t = OwedTicker(o) THEN Owed(o) ELSE 0)
           /\ resting.id = req.id => balances = resting.balances

\* a partly filled LIMIT BUY has been cancelled
C10_Witness ==
    /\ CancelledOpen
    /\ pre.orders[req.id].side = "BUY"
    /\ pre.orders[req.id].type = "LIMIT"
    /\ pre.orders[req.id].status = "PARTIALLY_EXECUTED"
    /\ pre.orders[req.id].price = 2

\* a LIMIT SELL admitted by the request before, with nothing filled, has been
\* cancelled
C10_WitnessRoundTrip ==
    /\ CancelledOpen
    /\ resting.id = req.id
    /\ pre.orders[req.id].side = "SELL"
    /\ pre.orders[req.id].quantity = 2
    /\ balances # pre.balances

TerminalStatuses == {"EXECUTED", "CANCELLED"}

\* the request being handled is a cancel_order, by its owner, of an order
\* that was EXECUTED or CANCELLED when the request arrived
CancelOfTerminal ==
    /\ req.op = "cancel"
    /\ req.id \in 1..Len(pre.orders)
    /\ pre.orders[req.id].user = req.user
    /\ pre.orders[req.id].status \in TerminalStatuses

\* C11: cancel_order on an EXECUTED or CANCELLED order is rejected and
\* changes no order and no balance; a second cancel of one order refunds
\* nothing more.
C11_CancelTerminalRejected ==
    CancelOfTerminal =>
        /\ pc = "done"
        /\ orders = pre.orders
        /\ balances = pre.balances

\* a LIMIT order that an earlier cancel_order had cancelled with a remainder
\* (nothing else cancels a LIMIT order) is cancelled a second time
C11_Witness ==
    /\ CancelOfTerminal
    /\ pc = "done"
    /\ pre.orders[req.id].status = "CANCELLED"
    /\ pre.orders[req.id].type = "LIMIT"
    /\ Remaining(pre.orders[req.id]) > 0

\* cancel_order on an EXECUTED order
C11_WitnessExecuted ==
    /\ CancelOfTerminal
    /\ pc = "done"
    /\ pre.orders[req.id].status = "EXECUTED"

\* the matcher has been called for an order that was not NEW
MatcherCalledOnNonNew ==
    /\ req.op = "match"
    /\ pre.orders[req.id].status # "NEW"

\* C12: execute_matching called for an order whose status is not NEW leaves
\* every order and every balance unchanged and makes no trade; so does a
\* second call for an EXECUTED order.
C12_MatcherNoOpOnNonNew ==
    MatcherCalledOnNonNew =>
        /\ orders = pre.orders
        /\ balances = pre.balances
        /\ trades = <<>>
        /\ pc \in {"match", "done"}

\* the matcher has returned from a call for a partly filled SELL while a NEW
\* BUY of another owner at a compatible price rests in the book
C12_Witness ==
    /\ MatcherCalledOnNonNew
    /\ pc = "done"
    /\ pre.orders[req.id].status = "PARTIALLY_EXECUTED"
    /\ pre.orders[req.id].side = "SELL"
    /\ \E i \in Ids :
          /\ orders[i].side = "BUY"
          /\ orders[i].status = "NEW"
          /\ orders[i].user # orders[req.id].user
          /\ orders[i].price >= orders[req.id].price

\* the matcher has returned from a second call for an EXECUTED order
C12_WitnessExecuted ==
    /\ MatcherCalledOnNonNew
    /\ pc = "done"
    /\ pre.orders[req.id].status = "EXECUTED"

\* C13: terminal states are absorbing: no step of a create_order, of a
\* matching pass, of a cancel_order or of a failure rollback changes the
\* status or the filled_quantity of an order that is EXECUTED or CANCELLED.
C13_TerminalAbsorbing ==
    [][\A i \in Ids :
          orders[i].status \in TerminalStatuses =>
              /\ i \in 1..Len(orders')
              /\ orders'[i].status = orders[i].status
              /\ orders'[i].filled_quantity = orders[i].filled_quantity]_vars

\* a LIMIT BUY has gone through its pass while a cancelled SELL of another
\* owner, with a remainder and a compatible price, was in the table: the
\* SELL is as it was
C13_Witness ==
    /\ pc = "done"
    /\ req.op = "create"
    /\ req.side = "BUY"
    /\ req.type = "LIMIT"
    /\ cur # NoOrder
    /\ \E i \in 1..Len(pre.orders) :
          /\ pre.orders[i].status = "CANCELLED"
          /\ pre.orders[i].side = "SELL"
          /\ pre.orders[i].ticker = req.ticker
          /\ pre.orders[i].user # req.user
          /\ pre.orders[i].type = "LIMIT"
          /\ pre.orders[i].price <= req.price
          /\ Remaining(pre.orders[i]) > 0
          /\ orders[i] = pre.orders[i]

\* the request being handled is a create_order that fails a check of
\* admission: the verdict on the state in which it arrived
AdmissionFailure ==
    IF req.op = "create"
    THEN Admission(pre.orders, pre.balances, instruments, req)
    ELSE "ok"

\* C14: a create_order that fails admission (unknown ticker, no RUB
\* instrument, no balance row, not enough available funds or asset) mutates
\* nothing: no order is created, every order and every balance is unchanged.
C14_AdmissionFailureMutatesNothing ==
    AdmissionFailure # "ok" =>
        /\ pc = "done"
        /\ cur = NoOrder
        /\ orders = pre.orders
        /\ balances = pre.balances
        /\ trades = <<>>

\* a LIMIT order has been turned down for want of available funds while
\* other orders were open
C14_Witness ==
    /\ pc = "done"
    /\ AdmissionFailure = "insufficient"
    /\ req.type = "LIMIT"
    /\ \E i \in Ids : orders[i].status \in OpenStatuses

C14_WitnessUnknownTicker == pc = "done" /\ AdmissionFailure = "not_found"

C14_WitnessNoRub == pc = "done" /\ AdmissionFailure = "no_rub"

C14_WitnessNoBalance == pc = "done" /\ AdmissionFailure = "no_balance" /\ orders # <<>>

C14_WitnessNothingAvailable == pc = "done" /\ AdmissionFailure = "nothing_available"

\* the request being handled is a MARKET SELL that arrived when the open BUY
\* orders of its ticker had less left than its quantity
MarketSellShort ==
    /\ req.op = "create"
    /\ req.side = "SELL"
    /\ req.type = "MARKET"
    /\ SumRemaining(pre.orders, MarketCounterOrders(pre.orders, req.ticker, "SELL"))
         < req.quantity

\* C15: a MARKET SELL submitted when the opposing BUY volume is smaller than
\* its quantity is rejected before it is persisted: once the request has been
\* handled no order record for it exists, in any status, and all balances
\* are unchanged.
C15_MarketSellRejectedUnpersisted ==
    (MarketSellShort /\ pc = "done") =>
        /\ orders = pre.orders
        /\ balances = pre.balances

\* what the code does keep of it: the balances are those from before the
\* request, and the orders are the same but for a CANCELLED record
C15_MarketSellRolledBack ==
    (MarketSellShort /\ pc = "done") =>
        /\ balances = pre.balances
        /\ \/ orders = pre.orders
           \/ orders = Append(pre.orders, [NewOrder(req) EXCEPT !.status = "CANCELLED"])

C15_WitnessRolledBack ==
    /\ MarketSellShort
    /\ pc = "done"
    /\ Len(orders) > Len(pre.orders)
    /\ pre.orders # <<>>

\* the request being handled is a create_order that was admitted and whose
\* execute_matching raises
MatchingFailed ==
    /\ req.op = "create"
    /\ cur # NoOrder
    /\ Admission(pre.orders, pre.balances, instruments, req) = "ok"
    /\ MatchingRaises(Append(pre.orders, NewOrder(req)), cur)

\* what the fills of the current pass have moved on the balance of (u, t),
\* for the owner of the aggressor
FillsOf(u, t) ==
    IF t = RUB
    THEN IF req.side = "SELL" THEN TradedValue(trades) ELSE 0 - TradedValue(trades)
    ELSE IF req.side = "SELL" THEN 0 - TradedQuantity(trades) ELSE TradedQuantity(trades)

\* C16: when execute_matching raises for an admitted order, the order is
\* rolled back: once the request has been handled its status is CANCELLED,
\* what was withheld for its unfilled quantity is returned, so that its
\* owner's balances are those from before the admission adjusted by its
\* fills, and nothing else has changed.
C16_FailedMatchingRolledBack ==
    (MatchingFailed /\ pc = "done") =>
        /\ orders[cur].status = "CANCELLED"
        /\ \A t \in Tickers :
              Amount(balances, req.user, t)
                = Amount(pre.balances, req.user, t) + FillsOf(req.user, t)
        /\ \A u \in Users \ {req.user}, t \in Tickers :
              Amount(balances, u, t) = Amount(pre.balances, u, t)
        /\ SubSeq(orders, 1, Len(pre.orders)) = pre.orders

\* a MARKET SELL for two units, admitted while a BUY for one unit rested,
\* has failed in the matcher and been rolled back
C16_Witness ==
    /\ MatchingFailed
    /\ pc = "done"
    /\ req.side = "SELL"
    /\ req.quantity = 2
    /\ MarketCounterOrders(pre.orders, req.ticker, "SELL") # {}

\* a MARKET BUY that passed the feasibility check of create_order has
\* failed in the matcher
C16_WitnessBuy ==
    /\ MatchingFailed
    /\ pc = "done"
    /\ req.side = "BUY"

\* the quantity of order i that the trade legs made so far have traded
RECURSIVE TradedOf(_, _)
TradedOf(ts, i) ==
    IF ts = <<>> THEN 0
    ELSE (IF Head(ts).order = i \/ Head(ts).counter = i THEN Head(ts).quantity ELSE 0)
         + TradedOf(Tail(ts), i)

\* C17: when create_order requests for one ticker run at the same time, no
\* unit of an order's quantity is traded twice: the trade legs of an order
\* never add up to more than its quantity, and no order's filled_quantity
\* ever exceeds its quantity.
C17_NoOverlappingMatch ==
    \A i \in Ids :
        /\ TradedOf(trades, i) <= orders[i].quantity
        /\ orders[i].filled_quantity <= orders[i].quantity

\* C18: the balance read of an admission and the reservation that follows
\* are atomic with respect to other requests: two create_order requests of
\* one owner are never both admitted against the same available amount, so
\* no balance amount ever becomes negative.
C18_AdmissionAtomic ==
    \A ut \in DOMAIN balances : balances[ut] >= 0

\* the request being handled is an admitted MARKET order past the
\* reservation step of create_order
MarketAdmitted ==
    /\ req.op = "create"
    /\ req.type = "MARKET"
    /\ cur # NoOrder
    /\ pc \in {"match", "loop", "done"}

\* C19: MARKET orders do not pre-lock funds: an open MARKET order, BUY or
\* SELL, contributes zero to reserved, its admission withholds nothing, and
\* its owner's balances change only by the settlement of its fills; so a
\* MARKET order that ends with an unfilled remainder leaves its owner's
\* balances at their values from before the admission adjusted by its fills.
C19_MarketNoPreLock ==
    /\ \A i \in Ids :
          (orders[i].type = "MARKET" /\ orders[i].status \in OpenStatuses)
              => ReservedBy(orders[i]) = 0
    /\ MarketAdmitted =>
          \A t \in Tickers :
              Amount(balances, req.user, t)
                = Amount(pre.balances, req.user, t) + FillsOf(req.user, t)

\* what a MARKET SELL whose pass has ended without a fill leaves: the order
\* CANCELLED and its whole quantity still withheld from its owner
C19_MarketSellLost ==
    /\ MarketAdmitted
    /\ pc = "done"
    /\ req.side = "SELL"
    /\ trades = <<>>
    /\ orders[cur].status = "CANCELLED"
    /\ Amount(balances, req.user, req.ticker)
         = Amount(pre.balances, req.user, req.ticker) - req.quantity

\* the part that holds: nothing is withheld for a MARKET BUY, which
\* contributes zero to reserved
C19_MarketBuyNotWithheld ==
    /\ \A i \in Ids :
          (orders[i].type = "MARKET" /\ orders[i].side = "BUY") => ReservedBy(orders[i]) = 0
    /\ (MarketAdmitted /\ req.side = "BUY" /\ trades = <<>>) => balances = pre.balances

\* the status of a MARKET order whose matching pass is over
MarketStatusAgrees(o) ==
    /\ o.status \in {"EXECUTED", "PARTIALLY_EXECUTED", "CANCELLED"}
    /\ o.status = "EXECUTED" <=> o.filled_quantity = o.quantity
    /\ o.status = "CANCELLED" <=> o.filled_quantity = 0
    /\ o.status = "PARTIALLY_EXECUTED" <=> (0 < o.filled_quantity /\ o.filled_quantity < o.quantity)

\* when its pass is over the status of a MARKET order is EXECUTED, CANCELLED
\* or PARTIALLY_EXECUTED by its fill; no MARKET order is NEW between
\* requests, and no trade leg has a MARKET order for its counter-order
MarketNeverNew ==
    /\ (MarketAdmitted /\ pc = "done") => MarketStatusAgrees(orders[cur])
    /\ Completed => \A i \in Ids : orders[i].type = "MARKET" => orders[i].status # "NEW"
    /\ \A k \in 1..Len(trades) : orders[trades[k].counter].type # "MARKET"

\* C20: a MARKET order never rests: when its pass is over its status is
\* EXECUTED if it is filled, CANCELLED if nothing is filled and
\* PARTIALLY_EXECUTED if it is partly filled, never NEW; its unfilled
\* remainder is never matched as a counter-order and is not counted as
\* available liquidity by check_market_order_executable.
C20_MarketNeverRests ==
    /\ MarketNeverNew
    /\ Completed =>
          \A side \in {"BUY", "SELL"}, t \in Assets :
              \A i \in MarketCounterOrders(orders, t, side) : orders[i].type # "MARKET"

\* the part that holds: the statuses, and no MARKET counter-order in a trade
C20_MarketNeverMatched == MarketNeverNew

\* a MARKET SELL has ended its pass partly filled
C20_WitnessPartly ==
    /\ pc = "done"
    /\ req.op = "create"
    /\ req.type = "MARKET"
    /\ cur # NoOrder
    /\ orders[cur].status = "PARTIALLY_EXECUTED"

\* the book an aggressor meets: the orders of the other side on its ticker
\* that are NEW or PARTIALLY_EXECUTED with something left, at a price its
\* limit allows
OpenCounterOrderIds(ords, oid) ==
    {i \in 1..Len(ords) :
        /\ ords[i].ticker = ords[oid].ticker
        /\ ords[i].side = OppositeSide(ords[oid].side)
        /\ ords[i].status \in OpenStatuses
        /\ Remaining(ords[i]) > 0
        /\ PriceCompatible(ords[oid], ords[i])}

\* the ids of a sequence of order ids
IdsOf(seq) == {seq[k] : k \in 1..Len(seq)}

\* C21: the counter-orders a matching pass considers are exactly the orders
\* of the other side on the same ticker with status NEW or
\* PARTIALLY_EXECUTED and a positive remainder, price-compatible when the
\* aggressor is LIMIT; a partly filled resting LIMIT order is among them.
C21_CounterOrdersOpen ==
    [][(pc = "match" /\ pc' = "loop") =>
          IdsOf(counter_orders') = OpenCounterOrderIds(orders, cur)]_vars

\* the same seen between requests: when a LIMIT order has come to rest with
\* something left, no order of another owner that its limit allows is
\* left open on the other side
C21_NoCompatibleLeft ==
    (pc = "done" /\ req.op = "create" /\ cur # NoOrder
        /\ orders[cur].type = "LIMIT" /\ orders[cur].status = "NEW") =>
        Eligible(orders, cur, OpenStatuses) = {}

\* C22: a LIMIT aggressor trades at compatible prices only: every fill of a
\* LIMIT BUY aggressor is against a SELL priced at or below its limit, every
\* fill of a LIMIT SELL aggressor against a BUY priced at or above its limit.
C22_LimitTradesCompatible ==
    \A k \in 1..Len(trades) :
        LET o == orders[trades[k].order]
            c == orders[trades[k].counter]
        IN o.type = "LIMIT" =>
              /\ c.price # NoPrice
              /\ c.side = OppositeSide(o.side)
              /\ IF o.side = "BUY" THEN c.price <= o.price ELSE c.price >= o.price

\* a LIMIT aggressor has traded and, with something left, has passed over a
\* NEW order of another owner on the other side that its limit excludes
C22_Witness ==
    /\ pc = "done"
    /\ req.op = "create"
    /\ cur # NoOrder
    /\ orders[cur].type = "LIMIT"
    /\ trades # <<>>
    /\ Remaining(orders[cur]) > 0
    /\ \E i \in Ids :
          /\ orders[i].side = OppositeSide(orders[cur].side)
          /\ orders[i].user # orders[cur].user
          /\ orders[i].status = "NEW"
          /\ ~PriceCompatible(orders[cur], orders[i])

\* a trade leg is being added by this step
TradeLegStep == Len(trades') = Len(trades) + 1

\* what a leg of q at p adds to the amount user u holds of ticker t
LegDelta(leg, buyer_order, u, t) ==
    (IF u = leg.buyer /\ t = buyer_order.ticker THEN leg.quantity ELSE 0)
    + (IF u = leg.seller /\ t = RUB THEN leg.quantity * leg.price ELSE 0)
    + (IF u = leg.buyer /\ t = RUB /\ buyer_order.type = "LIMIT"
       THEN leg.quantity * (buyer_order.price - leg.price) ELSE 0)

\* C23: a trade leg of quantity q at price p changes exactly this: the
\* filled_quantity of both orders grows by q (the status of the counter-order
\* following its fill), the buyer's balance of the ticker grows by q, the
\* seller's RUB balance grows by q x p, a LIMIT buyer's RUB balance gets
\* the price improvement q x (limit - p); no other order and no balance of a
\* third user changes, and no balance row goes away.
C23_TradeLegFrame ==
    [][TradeLegStep =>
          LET leg == trades'[Len(trades')]
              buyer_order == orders[IF orders[leg.order].side = "BUY" THEN leg.order ELSE leg.counter]
          IN /\ leg.quantity > 0
             /\ leg.buyer # leg.seller
             /\ Len(orders') = Len(orders)
             /\ \A i \in Ids :
                   IF i \in {leg.order, leg.counter}
                   THEN [orders'[i] EXCEPT !.status = orders[i].status]
                            = [orders[i] EXCEPT !.filled_quantity = @ + leg.quantity]
                   ELSE orders'[i] = orders[i]
             /\ orders'[leg.order].status = orders[leg.order].status
             /\ orders'[leg.counter].status =
                   (IF orders'[leg.counter].filled_quantity = orders'[leg.counter].quantity
                    THEN "EXECUTED" ELSE "PARTIALLY_EXECUTED")
             /\ DOMAIN balances \subseteq DOMAIN balances'
             /\ \A u \in Users, t \in Tickers :
                   Amount(balances', u, t) = Amount(balances, u, t) + LegDelta(leg, buyer_order, u, t)]_vars

\* a leg has been traded by a MARKET BUY while a third user holds balances
\* and an order
C23_WitnessMarketBuy ==
    /\ pc = "loop"
    /\ trades # <<>>
    /\ orders[cur].type = "MARKET"
    /\ orders[cur].side = "BUY"
    /\ \E i \in Ids : orders[i].user \notin {trades[1].buyer, trades[1].seller}

\* a leg has been traded below the limit of a LIMIT BUY aggressor, which
\* has been refunded the difference
C23_Witness ==
    /\ pc = "loop"
    /\ trades # <<>>
    /\ orders[cur].type = "LIMIT"
    /\ orders[cur].side = "BUY"
    /\ trades[Len(trades)].price < orders[cur].price
    /\ \E i \in Ids : orders[i].user \notin {trades[1].buyer, trades[1].seller}

\* a create_order of the given side has come past the checks of the
\* instruments and of the balance row, to the check of the available amount
AtAffordability(side) ==
    /\ req.op = "create"
    /\ req.side = side
    /\ AdmissionFailure \notin {"not_found", "no_rub", "no_balance"}

\* the request has passed admission: its order has been created
Admitted == req.op = "create" /\ cur # NoOrder

\* available(owner, ticker) as the specification defines it, before the request
SpecAvailable(u, t) == Amount(pre.balances, u, t) - SpecReserved(pre.orders, u, t)

\* the owner has an open LIMIT BUY order on the ticker
HasOpenBuy(ords, u, t) ==
    \E i \in 1..Len(ords) :
        /\ ords[i].user = u
        /\ ords[i].ticker = t
        /\ ords[i].side = "BUY"
        /\ ords[i].type = "LIMIT"
        /\ ords[i].status \in OpenStatuses
        /\ Remaining(ords[i]) > 0

\* C24: a SELL order (LIMIT or MARKET) of quantity q passes the affordability
\* check exactly when available >= q, available being the owner's holding of
\* the ticker less the remainder of the owner's open SELL orders on it; the
\* owner's open BUY orders on the ticker do not reduce it.
C24_SellAffordability ==
    AtAffordability("SELL") =>
        (Admitted <=> SpecAvailable(req.user, req.ticker) >= req.quantity)

\* what holds: the same for an owner without an open LIMIT BUY order on the
\* ticker
C24_SellAffordabilityNoBuy ==
    (AtAffordability("SELL") /\ ~HasOpenBuy(pre.orders, req.user, req.ticker)) =>
        (Admitted <=> SpecAvailable(req.user, req.ticker) >= req.quantity)

\* the RUB withheld for the open LIMIT BUY orders of user u: remaining x
\* limit price, the order that is between its commit and its reservation
\* left out
Earmarked(ords, p, c, u) ==
    SpecReserved(ords, u, RUB)
    - (IF p = "reserve" /\ ords[c].user = u /\ ords[c].side = "BUY" /\ ords[c].type = "LIMIT"
       THEN ords[c].price * ords[c].quantity ELSE 0)

\* the RUB a trade leg pays to user u as its seller, less the RUB it takes
\* from what is withheld for u as its LIMIT buyer
LegRub(ords, leg, u) ==
    LET buyer_order == ords[IF ords[leg.order].side = "BUY" THEN leg.order ELSE leg.counter]
    IN (IF u = leg.seller THEN leg.quantity * leg.price ELSE 0)
       - (IF u = leg.buyer /\ buyer_order.type = "LIMIT" THEN leg.quantity * leg.price ELSE 0)

\* a LIMIT BUY is admitted only when the RUB amount of its owner, which is
\* free of what is withheld for the owner's other orders, covers price x
\* quantity
LimitBuyCovered ==
    (Admitted /\ req.side = "BUY" /\ req.type = "LIMIT") =>
        Amount(pre.balances, req.user, RUB) >= req.price * req.quantity

\* no RUB amount is negative
RubNonNegative == \A u \in Users : Amount(balances, u, RUB) >= 0

\* the RUB amount of a user plus what is withheld for the user's open LIMIT
\* BUY orders changes by the trades of the user only
EarmarkFunded ==
    [][\A u \in Users :
          Amount(balances', u, RUB) + Earmarked(orders', pc', cur', u)
              = Amount(balances, u, RUB) + Earmarked(orders, pc, cur, u)
                + (IF TradeLegStep THEN LegRub(orders, trades'[Len(trades')], u) ELSE 0)]_vars

\* C25: a LIMIT BUY of q at p is admitted only if available_RUB >= p x q,
\* available_RUB being free of the RUB withheld for the owner's other open
\* LIMIT BUY orders; so what is withheld for an owner's open LIMIT BUY orders,
\* remaining x limit price in total, is RUB taken from the owner's amount and
\* never more than the owner has.
C25_LimitBuyFunded == []LimitBuyCovered /\ []RubNonNegative /\ EarmarkFunded

\* a LIMIT BUY has been turned down that the owner's amount would cover were
\* the RUB withheld for the owner's open LIMIT BUY orders counted in
C25_Witness ==
    /\ pc = "done"
    /\ req.op = "create"
    /\ req.side = "BUY"
    /\ req.type = "LIMIT"
    /\ ~Admitted
    /\ AdmissionFailure \in {"nothing_available", "insufficient"}
    /\ SpecReserved(orders, req.user, RUB) > 0
    /\ Amount(balances, req.user, RUB) + SpecReserved(orders, req.user, RUB)
           >= req.price * req.quantity

\* a second LIMIT BUY of an owner has been admitted while the first is open
C25_WitnessSecond ==
    /\ pc = "done"
    /\ Admitted
    /\ req.side = "BUY"
    /\ req.type = "LIMIT"
    /\ SpecReserved(pre.orders, req.user, RUB) > 0
    /\ orders[cur].status \in OpenStatuses

\* the resting SELL orders of a ticker: LIMIT, NEW or PARTIALLY_EXECUTED,
\* with something left
RestingSells(ords, t) ==
    {i \in 1..Len(ords) :
        /\ ords[i].ticker = t
        /\ ords[i].side = "SELL"
        /\ ords[i].type = "LIMIT"
        /\ ords[i].status \in OpenStatuses
        /\ Remaining(ords[i]) > 0}

\* the cost of taking `left` units from the orders S, cheapest price level
\* first, from price level p upwards
RECURSIVE CostFrom(_, _, _, _)
CostFrom(ords, S, p, left) ==
    IF left <= 0 \/ p > MaxPrice THEN 0
    ELSE LET taken == Min(left, SumRemaining(ords, {i \in S : ords[i].price = p}))
         IN taken * p + CostFrom(ords, S, p + 1, left - taken)

EstimatedCost(ords, t, q) == CostFrom(ords, RestingSells(ords, t), 1, q)

C26_WitnessInsufficient ==
    /\ pc = "done"
    /\ req.op = "create"
    /\ req.side = "BUY"
    /\ req.type = "MARKET"
    /\ ~Admitted
    /\ SumRemaining(pre.orders, RestingSells(pre.orders, req.ticker)) >= req.quantity
    /\ Amount(pre.balances, req.user, RUB) > 0

\* a MARKET BUY has been turned down that the resting SELL orders cannot fill
C26_WitnessShort ==
    /\ pc = "done"
    /\ req.op = "create"
    /\ req.side = "BUY"
    /\ req.type = "MARKET"
    /\ ~Admitted
    /\ RestingSells(pre.orders, req.ticker) # {}
    /\ SumRemaining(pre.orders, RestingSells(pre.orders, req.ticker)) < req.quantity

\* the balance row an order draws its funds from
FundsTicker(r) == IF r.side = "BUY" THEN RUB ELSE r.ticker

\* C27: in a run of create_order and cancel_order requests handled one after
\* another from non-negative balances, every balance amount of every
\* (owner, ticker) is non-negative in every state.
C27_BalancesNonNegative ==
    \A key \in DOMAIN balances : balances[key] >= 0

\* an order has been admitted that took the whole amount of its owner's row,
\* after an earlier order of the owner had taken a part
C27_Witness ==
    /\ pc = "done"
    /\ Admitted
    /\ (req.side = "SELL" \/ req.type = "LIMIT")
    /\ Amount(pre.balances, req.user, FundsTicker(req)) > 0
    /\ \E i \in 1..Len(pre.orders) :
          /\ pre.orders[i].user = req.user
          /\ pre.orders[i].side = req.side
    /\ \E u \in Users, t \in Tickers : HasRow(balances, u, t) /\ balances[<<u, t>>] = 0

\* the largest limit a get_orderbook request is given
MaxLimit == 2

Limits == 0..MaxLimit

\* the members of the book of a ticker on one side, of the given statuses:
\* LIMIT orders with something left
BookMembers(ords, t, side, statuses) ==
    {i \in 1..Len(ords) :
        /\ ords[i].ticker = t
        /\ ords[i].side = side
        /\ ords[i].type = "LIMIT"
        /\ ords[i].status \in statuses
        /\ Remaining(ords[i]) > 0}

\* `levels` is the book of the members M on `side`, cut to `limit` levels:
\* strictly ordered by price, the best first, one level for each of the best
\* prices, its quantity the sum of the remainders at that price
LevelsOf(levels, ords, M, side, limit) ==
    LET prices == {ords[i].price : i \in M}
        shown == {levels[k].price : k \in 1..Len(levels)}
    IN /\ Len(levels) = Min(limit, Cardinality(prices))
       /\ shown \subseteq prices
       /\ \A k \in 1..Len(levels) - 1 :
             IF side = "BUY" THEN levels[k].price > levels[k + 1].price
                             ELSE levels[k].price < levels[k + 1].price
       /\ \A p \in shown, q \in prices \ shown : IF side = "BUY" THEN p > q ELSE p < q
       /\ \A k \in 1..Len(levels) :
             levels[k].qty = SumRemaining(ords, {i \in M : ords[i].price = levels[k].price})

\* between requests get_orderbook shows the members of the given statuses
OrderbookShows(statuses) ==
    Completed =>
        \A t \in Assets \cap instruments, limit \in Limits :
            LET book == get_orderbook(orders, instruments, t, limit)
            IN /\ book.found
               /\ LevelsOf(book.bid_levels, orders, BookMembers(orders, t, "BUY", statuses), "BUY", limit)
               /\ LevelsOf(book.ask_levels, orders, BookMembers(orders, t, "SELL", statuses), "SELL", limit)

\* C28: get_orderbook returns, on each side, one level for each distinct
\* price, its quantity the sum of the remainders of the book members (resting
\* LIMIT orders, NEW or PARTIALLY_EXECUTED, with something left) at that
\* price, the bids strictly descending and the asks strictly ascending by
\* price, cut to the best `limit` levels.
C28_OrderbookLevels == OrderbookShows(OpenStatuses)

\* what holds: the same of the NEW members alone
C28_OrderbookOfNew == OrderbookShows({"NEW"})

\* two NEW orders rest at one price and a third at a worse price: a level
\* sums two orders and a limit of 1 cuts the book
C28_WitnessOfNew ==
    /\ Completed
    /\ \E t \in Assets \cap instruments, side \in {"BUY", "SELL"} :
          \E i, j, k \in BookMembers(orders, t, side, {"NEW"}) :
              /\ i # j
              /\ orders[i].price = orders[j].price
              /\ orders[k].price # orders[i].price

\* the quantity of order i that cancel_order has given back to its owner
RECURSIVE RefundedOf(_, _)
RefundedOf(rs, i) ==
    IF rs = <<>> THEN 0
    ELSE (IF Head(rs).order = i THEN Head(rs).quantity ELSE 0) + RefundedOf(Tail(rs), i)

\* C29: a cancel_order handled at the same time as a matching pass that
\* fills the same resting order never releases and trades the same quantity:
\* what cancel_order gives back of an order plus what is traded of it is never
\* more than the quantity of the order.
C29_CancelOrTrade ==
    \A i \in Ids : RefundedOf(refunds, i) + TradedOf(trades, i) <= orders[i].quantity

\* all the RUB there is: the RUB amounts of the users and the RUB withheld
\* for their open LIMIT BUY orders
RECURSIVE SumRub(_, _, _, _, _)
SumRub(ords, bal, p, c, users) ==
    IF users = {} THEN 0
    ELSE LET u == CHOOSE x \in users : TRUE
         IN Amount(bal, u, RUB) + Earmarked(ords, p, c, u)
            + SumRub(ords, bal, p, c, users \ {u})

TotalRub == SumRub(orders, balances, pc, cur, Users)

\* the step adds a trade leg whose buyer's order is a MARKET order
MarketBuyLegStep ==
    /\ TradeLegStep
    /\ LET leg == trades'[Len(trades')]
       IN orders[IF orders[leg.order].side = "BUY" THEN leg.order ELSE leg.counter].type = "MARKET"

\* C30: RUB is conserved over a run of create_order and cancel_order requests
\* handled one after another: the sum over the users of the RUB amount and of
\* the RUB withheld for their open LIMIT BUY orders (remaining x limit price)
\* is the same after every step; what a trade credits to the seller is
\* debited from the buyer, LIMIT or MARKET.
C30_RubConserved ==
    [][SumRub(orders', balances', pc', cur', Users) = TotalRub]_vars

\* what holds: every step but the trade leg of a MARKET buyer conserves RUB
C30_RubConservedButMarketBuy ==
    [][~MarketBuyLegStep => SumRub(orders', balances', pc', cur', Users) = TotalRub]_vars

\* the quantity of ticker t withheld for the open SELL orders of user u, the
\* order that is between its commit and its reservation left out
WithheldAsset(ords, p, c, u, t) ==
    SpecReserved(ords, u, t)
    - (IF p = "reserve" /\ ords[c].user = u /\ ords[c].side = "SELL" /\ ords[c].ticker = t
       THEN ords[c].quantity ELSE 0)

\* all there is of ticker t: the amounts of the users and what is withheld
\* for their open SELL orders
RECURSIVE SumAsset(_, _, _, _, _, _)
SumAsset(ords, bal, p, c, users, t) ==
    IF users = {} THEN 0
    ELSE LET u == CHOOSE x \in users : TRUE
         IN Amount(bal, u, t) + WithheldAsset(ords, p, c, u, t)
            + SumAsset(ords, bal, p, c, users \ {u}, t)

\* the step ends the matching pass of a SELL order as CANCELLED
SellEndsCancelledStep ==
    /\ pc = "loop"
    /\ pc' = "done"
    /\ orders[cur].side = "SELL"
    /\ orders'[cur].status = "CANCELLED"

\* C31: each traded asset is conserved over a run of create_order and
\* cancel_order requests handled one after another: for every ticker but RUB
\* the sum over the users of the amount and of the quantity withheld for
\* their open SELL orders is the same after every step; no unit withheld at
\* the admission of a SELL order is lost when the order ends CANCELLED.
C31_AssetConserved ==
    [][\A t \in Assets :
          SumAsset(orders', balances', pc', cur', Users, t)
              = SumAsset(orders, balances, pc, cur, Users, t)]_vars

\* what holds: every step conserves the asset but the end of a matching pass
\* that sets a SELL order CANCELLED
C31_AssetConservedButCancelledSell ==
    [][~SellEndsCancelledStep =>
          \A t \in Assets :
              SumAsset(orders', balances', pc', cur', Users, t)
                  = SumAsset(orders, balances, pc, cur, Users, t)]_vars

\* the orders table as the matching pass of the request being handled found it
AtMatching == Append(pre.orders, NewOrder(req))

\* the matching pass of an admitted MARKET order has ended, and its call of
\* check_market_order_executable had reported the order executable
MarketReportedExecutable ==
    /\ pc = "done"
    /\ Admitted
    /\ req.type = "MARKET"
    /\ check_market_order_executable(AtMatching, req.ticker, req.side, req.quantity).can

\* C32: the feasibility check and the matcher agree on liquidity: whenever
\* check_market_order_executable reports a MARKET order of quantity q
\* executable, the matching pass that follows fills the order for the whole
\* of q and leaves it EXECUTED.
C32_CheckAndMatcherAgree ==
    MarketReportedExecutable =>
        /\ orders[cur].filled_quantity = orders[cur].quantity
        /\ orders[cur].status = "EXECUTED"

\* what holds: the same when every order the check counts is NEW and of
\* another owner
C32_AgreeOnNewOfOthers ==
    (/\ MarketReportedExecutable
     /\ \A i \in MarketCounterOrders(AtMatching, req.ticker, req.side) :
           /\ AtMatching[i].status = "NEW"
           /\ AtMatching[i].user # req.user) =>
        /\ orders[cur].filled_quantity = orders[cur].quantity
        /\ orders[cur].status = "EXECUTED"

\* a MARKET order reported executable over NEW orders of other owners at two
\* prices has been filled
C32_WitnessOfOthers ==
    /\ MarketReportedExecutable
    /\ Len(trades) = 2
    /\ \A i \in MarketCounterOrders(AtMatching, req.ticker, req.side) :
          /\ AtMatching[i].status = "NEW"
          /\ AtMatching[i].user # req.user

\* a LIMIT BUY and a LIMIT SELL of different owners on one ticker, both of
\* the given statuses with something left, the BUY priced at or above the SELL
Crossed(ords, statuses) ==
    \E b, s \in 1..Len(ords) :
        /\ ords[b].side = "BUY" /\ ords[s].side = "SELL"
        /\ ords[b].type = "LIMIT" /\ ords[s].type = "LIMIT"
        /\ ords[b].ticker = ords[s].ticker
        /\ ords[b].user # ords[s].user
        /\ ords[b].status \in statuses /\ ords[s].status \in statuses
        /\ Remaining(ords[b]) > 0 /\ Remaining(ords[s]) > 0
        /\ ords[b].price >= ords[s].price

\* C33: the book is never left crossed: after every completed create_order
\* or cancel_order there is no pair of LIMIT orders on one ticker, of
\* different owners, both NEW or PARTIALLY_EXECUTED with something left, with
\* the BUY price at or above the SELL price.
C33_BookNeverCrossed == Completed => ~Crossed(orders, OpenStatuses)

\* what holds: the NEW orders are never left crossed
C33_NewNeverCrossed == Completed => ~Crossed(orders, {"NEW"})

\* a LIMIT order has traded with every NEW order its limit allows and rests
\* NEW or partly filled beside NEW orders of other owners that it does not
\* cross
C33_WitnessOfNew ==
    /\ pc = "done"
    /\ Admitted
    /\ req.type = "LIMIT"
    /\ trades # <<>>
    /\ Remaining(orders[cur]) > 0
    /\ \E i \in Ids :
          /\ orders[i].side = OppositeSide(req.side)
          /\ orders[i].user # req.user
          /\ orders[i].status = "NEW"

====
